---- MODULE Spec2Model ----
(***************************************************************************)
(* A model of Stomp::StompClient (src/src/StompClient.h): the connection   *)
(* state machine, heartbeat negotiation and generation, the subscription   *)
(* table and the dispatch of MESSAGE frames.                               *)
(*                                                                         *)
(* Text (Arduino String values) is a sequence of one-character strings, so *)
(* that String(i), toInt(), startsWith() and substring() are computed the  *)
(* way the library computes them.  Incoming frames are StompCommand        *)
(* values (the result of StompCommandParser::parse); outgoing frames are   *)
(* the lines handed to _send, kept as command / header lines / body.       *)
(*                                                                         *)
(* Each action is one entry point of the client run to completion: a       *)
(* public method, or one transport event handled by _handleWebSocketEvent. *)
(* sent, fired and event record what that entry point did (frames handed   *)
(* to the transport, callbacks invoked, the call and its result); issued   *)
(* counts, per handle, the subscribe results not yet unsubscribed.         *)
(* setUser is never called in the modelled runs (_user stays nullptr, the  *)
(* constructor's default), so CONNECT carries no login line; _heartbeats   *)
(* (written on a SockJS 'h' pulse, never read) is not kept.                *)
(***************************************************************************)
EXTENDS Integers, Sequences, FiniteSets, TLC

VARIABLES state, heartbeatInterval, lastSent, now, commandCount,
          subscriptions, connectHandler, disconnectHandler, receiptHandler,
          errorHandler, sockjs, sent, fired, event, issued

vars == <<state, heartbeatInterval, lastSent, now, commandCount,
          subscriptions, connectHandler, disconnectHandler, receiptHandler,
          errorHandler, sockjs, sent, fired, event, issued>>

(***************************************************************************)
(* Bounds of the model.                                                    *)
(***************************************************************************)
\* Build-time size of the subscription table (#ifndef STOMP_MAX_SUBSCRIPTIONS).
STOMP_MAX_SUBSCRIPTIONS == 3

\* Frames a run may hand to the transport (caps _commandCount).
MaxCommands == 5

\* Number of times the clock advances in a run.
MaxClockSteps == 3

(***************************************************************************)
(* Program constants.                                                      *)
(***************************************************************************)
preferredHeartbeat == 10000

\* millis() moves in steps of this many milliseconds.
ClockSteps == {10000}

DISCONNECTED == "DISCONNECTED"
OPENING == "OPENING"
CONNECTED == "CONNECTED"
DISCONNECTING == "DISCONNECTING"

Stomp_State_t == {DISCONNECTED, OPENING, CONNECTED, DISCONNECTING}

ACK == "ACK"
NACK == "NACK"
CONTINUE == "CONTINUE"

Stomp_Ack_t == {ACK, NACK, CONTINUE}

AUTO == "AUTO"
CLIENT == "CLIENT"
CLIENT_INDIVIDUAL == "CLIENT_INDIVIDUAL"

Stomp_AckMode_t == {AUTO, CLIENT, CLIENT_INDIVIDUAL}

\* A null std::function.
nullptr == "nullptr"

\* The message handlers an application passes to subscribe.
MessageHandlers == {"h1", "h2"}

(***************************************************************************)
(* Text.                                                                   *)
(***************************************************************************)
Digits == <<"0", "1", "2", "3", "4", "5", "6", "7", "8", "9">>

IsDigit(c) == \E d \in 1..10 : Digits[d] = c

DigitValue(c) == (CHOOSE d \in 1..10 : Digits[d] = c) - 1

IsSpace(c) == c \in {" ", "\t", "\n", "\r"}

\* String(n): the decimal text of an integer.
RECURSIVE DecimalDigits(_)
DecimalDigits(n) ==
    IF n < 10 THEN <<Digits[n + 1]>>
    ELSE Append(DecimalDigits(n \div 10), Digits[(n % 10) + 1])

StringOf(n) == IF n < 0 THEN <<"-">> \o DecimalDigits(-n) ELSE DecimalDigits(n)

\* The digits of s from position i on, accumulated as atol does.
RECURSIVE ReadDigits(_, _, _)
ReadDigits(s, i, acc) ==
    IF i > Len(s) \/ ~IsDigit(s[i]) THEN acc
    ELSE ReadDigits(s, i + 1, acc * 10 + DigitValue(s[i]))

RECURSIVE SkipSpace(_, _)
SkipSpace(s, i) == IF i <= Len(s) /\ IsSpace(s[i]) THEN SkipSpace(s, i + 1) ELSE i

\* String::toInt(): atol of the buffer: leading white space, an optional
\* sign, then digits up to the first other character; 0 when there are none.
toInt(s) ==
    LET i == SkipSpace(s, 1)
    IN  IF i > Len(s) THEN 0
        ELSE IF s[i] = "-" THEN -ReadDigits(s, i + 1, 0)
        ELSE IF s[i] = "+" THEN ReadDigits(s, i + 1, 0)
        ELSE ReadDigits(s, i, 0)

\* String::indexOf(c): zero-based position of the first c, -1 when absent.
indexOf(s, c) ==
    IF \E i \in 1..Len(s) : s[i] = c
    THEN (CHOOSE i \in 1..Len(s) : s[i] = c /\ \A j \in 1..(i - 1) : s[j] # c) - 1
    ELSE -1

\* String::substring(from): the text from zero-based position from on.
substring(s, from) == IF from >= Len(s) THEN <<>> ELSE SubSeq(s, from + 1, Len(s))

\* String::startsWith(p).
startsWith(s, p) == Len(s) >= Len(p) /\ SubSeq(s, 1, Len(p)) = p

SubPrefix == <<"s", "u", "b", "-">>

max(a, b) == IF a > b THEN a ELSE b

(***************************************************************************)
(* Frames.                                                                 *)
(***************************************************************************)
\* An outgoing frame: lines[0], the "key:value" lines after it, the body.
Frame(command, headers, body) ==
    [command |-> command, headers |-> headers, body |-> body]

\* An incoming StompCommand: the command word and its headers in order.
StompCommand(command, headers) == [command |-> command, headers |-> headers]

NoCommand == StompCommand("", <<>>)

\* StompHeaders::getValue(key): the value of the first header named key, the
\* empty text when there is none.
getValue(headers, key) ==
    IF \E i \in 1..Len(headers) : headers[i][1] = key
    THEN headers[CHOOSE i \in 1..Len(headers) :
                    /\ headers[i][1] = key
                    /\ \A j \in 1..(i - 1) : headers[j][1] # key][2]
    ELSE <<>>

\* The text sent by _sendHeartbeat: a single newline.
HeartbeatPulse == Frame("\n", <<>>, <<>>)

ConnectFrame ==
    Frame("CONNECT",
          << <<"accept-version", <<"1", ".", "1", ",", "1", ".", "0">> >>,
             <<"heart-beat", StringOf(preferredHeartbeat) \o <<",", "0">> >> >>,
          <<>>)

DisconnectFrame(count) ==
    Frame("DISCONNECT", << <<"receipt", StringOf(count)>> >>, <<>>)

\* subscribe's switch: the ack header of each acknowledgement mode.
AckModeText(ackType) ==
    CASE ackType = AUTO -> <<"a", "u", "t", "o">>
      [] ackType = CLIENT -> <<"c", "l", "i", "e", "n", "t">>
      [] ackType = CLIENT_INDIVIDUAL ->
            <<"c", "l", "i", "e", "n", "t", "-",
              "i", "n", "d", "i", "v", "i", "d", "u", "a", "l">>

SubscribeFrame(i, queue, ackType) ==
    Frame("SUBSCRIBE",
          << <<"id", SubPrefix \o StringOf(i)>>,
             <<"destination", queue>>,
             <<"ack", AckModeText(ackType)>> >>,
          <<>>)

UnsubscribeFrame(subscription) ==
    Frame("UNSUBSCRIBE", << <<"id", SubPrefix \o StringOf(subscription)>> >>, <<>>)

AckFrame(message) ==
    Frame("ACK", << <<"id", getValue(message.headers, "ack")>> >>, <<>>)

NackFrame(message) ==
    Frame("NACK", << <<"id", getValue(message.headers, "ack")>> >>, <<>>)

SendFrame(destination, message, headers) ==
    Frame("SEND", headers \o << <<"destination", destination>> >>, message)

(***************************************************************************)
(* Inputs.                                                                 *)
(***************************************************************************)
Text(n, m) == StringOf(n) \o <<",">> \o StringOf(m)

\* The <n>,<m> pairs a broker's heart-beat header carries in the modelled runs.
HeartBeatPairs == {<<5000, 0>>, <<20000, 0>>, <<0, 0>>}

\* heart-beat values: the well-formed pairs and the empty value.
HeartBeatValues ==
    {Text(p[1], p[2]) : p \in HeartBeatPairs} \cup {<<>>}

ConnectedCommands ==
    {StompCommand("CONNECTED", <<>>)}
    \cup {StompCommand("CONNECTED", << <<"heart-beat", v>> >>) : v \in HeartBeatValues}

Destinations == {<<"/", "q", "/", "a">>}

Bodies == {<<"h", "i">>}

ExtraHeaders == {<< <<"priority", <<"9">> >> >>}

Slots == 0..(STOMP_MAX_SUBSCRIPTIONS - 1)

\* subscription headers of incoming MESSAGE frames: sub-<i> for each slot,
\* sub- with nothing or with no digit after it, and a foreign token.
SubscriptionTokens ==
    {SubPrefix \o StringOf(i) : i \in Slots}
    \cup {SubPrefix, SubPrefix \o <<"a", "b", "c">>, <<"f", "o", "o">>}

MessageId == <<"m", "s", "g", "-", "1">>

\* MESSAGE frames: with an ack header, with or without a subscription header.
MessageCommands ==
    {StompCommand("MESSAGE", << <<"ack", MessageId>> >>)}
    \cup {StompCommand("MESSAGE", << <<"subscription", t>>, <<"ack", MessageId>> >>) :
            t \in SubscriptionTokens}

(***************************************************************************)
(* What one entry point did.                                               *)
(***************************************************************************)
\* op: the entry point; from: _state when it was entered; cmd: the frame
\* received; ret: the value returned (subscribe) or the argument
\* (unsubscribe); result, reenters: what the message handler did.
Event(op, cmd, ret, result, reenters) ==
    [op |-> op, from |-> state, cmd |-> cmd, ret |-> ret,
     result |-> result, reenters |-> reenters]

Call(op) == Event(op, NoCommand, -1, CONTINUE, FALSE)

Received(cmd) == Event("WStype_TEXT", cmd, -1, CONTINUE, FALSE)

\* The callbacks st invokes, in order: those of names that are registered.
Invoke(names) ==
    LET registered(n) ==
            CASE n = "connect" -> connectHandler
              [] n = "disconnect" -> disconnectHandler
              [] n = "receipt" -> receiptHandler
              [] n = "error" -> errorHandler
    IN  SelectSeq(names, registered)

\* _send, once per frame of frames: sendTXT, _lastSent = millis(), _commandCount++.
\* (_commandCount is a uint32_t; MaxCommands keeps it far from wrapping.)
send(frames) ==
    /\ commandCount + Len(frames) <= MaxCommands
    /\ sent' = frames
    /\ IF frames = <<>>
       THEN UNCHANGED <<lastSent, commandCount>>
       ELSE /\ lastSent' = now
            /\ commandCount' = commandCount + Len(frames)

\* A _sendWithHeaders without the _commandCount++.
sendWithHeadersUncounted(frame) ==
    /\ commandCount + 1 <= MaxCommands
    /\ sent' = <<frame>>
    /\ UNCHANGED <<lastSent, commandCount>>

\* _sendWithHeaders: sendTXT and _commandCount++; _lastSent is not assigned.
sendWithHeaders(frame) ==
    /\ commandCount + 1 <= MaxCommands
    /\ sent' = <<frame>>
    /\ commandCount' = commandCount + 1
    /\ UNCHANGED lastSent

handlers == <<connectHandler, disconnectHandler, receiptHandler, errorHandler>>

(***************************************************************************)
(* The state after construction.                                           *)
(***************************************************************************)
Init ==
    /\ state = DISCONNECTED
    /\ heartbeatInterval = 0
    /\ now = 0
    /\ lastSent = 0
    /\ commandCount = 0
    /\ subscriptions = [i \in 0..(STOMP_MAX_SUBSCRIPTIONS - 1) |->
                            [id |-> -1, messageHandler |-> nullptr]]
    /\ connectHandler = FALSE
    /\ disconnectHandler = FALSE
    /\ receiptHandler = FALSE
    /\ errorHandler = FALSE
    /\ sockjs \in BOOLEAN
    /\ sent = <<>>
    /\ fired = <<>>
    /\ event = [op |-> "StompClient", from |-> DISCONNECTED, cmd |-> NoCommand,
                ret |-> -1, result |-> CONTINUE, reenters |-> FALSE]
    /\ issued = [i \in 0..(STOMP_MAX_SUBSCRIPTIONS - 1) |-> 0]

(***************************************************************************)
(* Registration of the four callbacks.                                     *)
(***************************************************************************)
onConnect ==
    /\ connectHandler' = TRUE
    /\ event' = Call("onConnect")
    /\ sent' = <<>>
    /\ fired' = <<>>
    /\ UNCHANGED <<state, heartbeatInterval, lastSent, now, commandCount,
                   subscriptions, disconnectHandler, receiptHandler,
                   errorHandler, sockjs, issued>>

onDisconnect ==
    /\ disconnectHandler' = TRUE
    /\ event' = Call("onDisconnect")
    /\ sent' = <<>>
    /\ fired' = <<>>
    /\ UNCHANGED <<state, heartbeatInterval, lastSent, now, commandCount,
                   subscriptions, connectHandler, receiptHandler,
                   errorHandler, sockjs, issued>>

onReceipt ==
    /\ receiptHandler' = TRUE
    /\ event' = Call("onReceipt")
    /\ sent' = <<>>
    /\ fired' = <<>>
    /\ UNCHANGED <<state, heartbeatInterval, lastSent, now, commandCount,
                   subscriptions, connectHandler, disconnectHandler,
                   errorHandler, sockjs, issued>>

onError ==
    /\ errorHandler' = TRUE
    /\ event' = Call("onError")
    /\ sent' = <<>>
    /\ fired' = <<>>
    /\ UNCHANGED <<state, heartbeatInterval, lastSent, now, commandCount,
                   subscriptions, connectHandler, disconnectHandler,
                   receiptHandler, sockjs, issued>>

(***************************************************************************)
(* Transport events.                                                       *)
(***************************************************************************)
\* _connectStomp's guard.
connectStompActs(st) == st # OPENING

\* _connectStomp.
connectStomp ==
    IF connectStompActs(state)
    THEN /\ state' = OPENING
         /\ send(<<ConnectFrame>>)
    ELSE /\ send(<<>>)
         /\ UNCHANGED state

\* A WStype_DISCONNECTED case that also forgets the subscriptions.
WStype_DISCONNECTED_ClearsTable ==
    /\ state' = DISCONNECTED
    /\ subscriptions' = [i \in DOMAIN subscriptions |->
                            [id |-> -1, messageHandler |-> nullptr]]
    /\ event' = Call("WStype_DISCONNECTED")
    /\ sent' = <<>>
    /\ fired' = <<>>
    /\ UNCHANGED <<heartbeatInterval, lastSent, now, commandCount,
                   handlers, sockjs, issued>>

\* A WStype_DISCONNECTED case that reports the loss to the disconnect callback.
WStype_DISCONNECTED_Notifies ==
    /\ state' = DISCONNECTED
    /\ event' = Call("WStype_DISCONNECTED")
    /\ sent' = <<>>
    /\ fired' = Invoke(<<"disconnect">>)
    /\ UNCHANGED <<heartbeatInterval, lastSent, now, commandCount,
                   subscriptions, handlers, sockjs, issued>>

\* _handleWebSocketEvent, WStype_DISCONNECTED.
WStype_DISCONNECTED ==
    /\ state' = DISCONNECTED
    /\ event' = Call("WStype_DISCONNECTED")
    /\ sent' = <<>>
    /\ fired' = <<>>
    /\ UNCHANGED <<heartbeatInterval, lastSent, now, commandCount,
                   subscriptions, handlers, sockjs, issued>>

\* _handleWebSocketEvent, WStype_CONNECTED.
WStype_CONNECTED ==
    /\ connectStomp
    /\ event' = Call("WStype_CONNECTED")
    /\ fired' = <<>>
    /\ UNCHANGED <<heartbeatInterval, now, subscriptions, handlers, sockjs,
                   issued>>

\* _handleWebSocketEvent, WStype_TEXT in SockJS mode, payload[0] == 'h'.
sockjsHeartbeat ==
    /\ sockjs
    /\ event' = Call("sockjs_h")
    /\ sent' = <<>>
    /\ fired' = <<>>
    /\ UNCHANGED <<state, heartbeatInterval, lastSent, now, commandCount,
                   subscriptions, handlers, sockjs, issued>>

\* _handleWebSocketEvent, WStype_TEXT in SockJS mode, payload[0] == 'o'.
sockjsOpen ==
    /\ sockjs
    /\ connectStomp
    /\ event' = Call("sockjs_o")
    /\ fired' = <<>>
    /\ UNCHANGED <<heartbeatInterval, now, subscriptions, handlers, sockjs,
                   issued>>

(***************************************************************************)
(* Received frames (_handleCommand).                                       *)
(***************************************************************************)
\* A _handleConnected that does not test _state.
handleConnectedAlways(st) == TRUE

\* _handleConnected's guard.
handleConnectedActs(st) == st # CONNECTED

\* A parseHeartbeat that reads the number after the comma (the text its
\* unused local holds) instead of the one before it.
parseHeartbeatAfterComma(command, old) ==
    LET heartBeatHeader == getValue(command.headers, "heart-beat")
        afterComma == substring(heartBeatHeader, indexOf(heartBeatHeader, ",") + 1)
    IN  IF heartBeatHeader # <<>>
        THEN max(toInt(afterComma), preferredHeartbeat)
        ELSE old

\* parseHeartbeat: the value of _heartbeatInterval after it, old before.
parseHeartbeat(command, old) ==
    LET heartBeatHeader == getValue(command.headers, "heart-beat")
    IN  IF heartBeatHeader # <<>>
        THEN max(toInt(heartBeatHeader), preferredHeartbeat)
        ELSE old

\* _handleConnected, for a CONNECTED frame among commands.
handleConnectedOf(commands) ==
    \E command \in commands :
        /\ event' = Received(command)
        /\ IF handleConnectedActs(state)
           THEN /\ state' = CONNECTED
                /\ heartbeatInterval' = parseHeartbeat(command, heartbeatInterval)
                /\ fired' = Invoke(<<"connect">>)
           ELSE /\ fired' = <<>>
                /\ UNCHANGED <<state, heartbeatInterval>>
        /\ sent' = <<>>
        /\ UNCHANGED <<lastSent, now, commandCount, subscriptions, handlers,
                       sockjs, issued>>

handleConnected == handleConnectedOf(ConnectedCommands)

\* A _handleReceipt that completes a disconnection in every state but
\* Disconnected.
handleReceiptCompletesAlways ==
    /\ event' = Received(StompCommand("RECEIPT", <<>>))
    /\ IF state # DISCONNECTED
       THEN /\ state' = DISCONNECTED
            /\ fired' = Invoke(<<"receipt", "disconnect">>)
       ELSE /\ fired' = Invoke(<<"receipt">>)
            /\ UNCHANGED state
    /\ sent' = <<>>
    /\ UNCHANGED <<heartbeatInterval, lastSent, now, commandCount,
                   subscriptions, handlers, sockjs, issued>>

\* _handleReceipt.
handleReceipt ==
    /\ event' = Received(StompCommand("RECEIPT", <<>>))
    /\ IF state = DISCONNECTING
       THEN /\ state' = DISCONNECTED
            /\ fired' = Invoke(<<"receipt", "disconnect">>)
       ELSE /\ fired' = Invoke(<<"receipt">>)
            /\ UNCHANGED state
    /\ sent' = <<>>
    /\ UNCHANGED <<heartbeatInterval, lastSent, now, commandCount,
                   subscriptions, handlers, sockjs, issued>>

\* A _handleError that invokes the disconnect callback before the error one.
handleErrorDisconnectFirst ==
    /\ event' = Received(StompCommand("ERROR", <<>>))
    /\ state' = DISCONNECTED
    /\ fired' = Invoke(<<"disconnect", "error">>)
    /\ sent' = <<>>
    /\ UNCHANGED <<heartbeatInterval, lastSent, now, commandCount,
                   subscriptions, handlers, sockjs, issued>>

\* _handleError.
handleError ==
    /\ event' = Received(StompCommand("ERROR", <<>>))
    /\ state' = DISCONNECTED
    /\ fired' = Invoke(<<"error", "disconnect">>)
    /\ sent' = <<>>
    /\ UNCHANGED <<heartbeatInterval, lastSent, now, commandCount,
                   subscriptions, handlers, sockjs, issued>>

\* _handleCommand, the final else: an unsupported command is discarded.
handleUnsupported ==
    /\ event' = Received(StompCommand("BEGIN", <<>>))
    /\ sent' = <<>>
    /\ fired' = <<>>
    /\ UNCHANGED <<state, heartbeatInterval, lastSent, now, commandCount,
                   subscriptions, handlers, sockjs, issued>>

(***************************************************************************)
(* Public operations that send.                                            *)
(***************************************************************************)
disconnect ==
    /\ send(<<DisconnectFrame(commandCount)>>)
    /\ event' = Call("disconnect")
    /\ fired' = <<>>
    /\ UNCHANGED <<state, heartbeatInterval, now, subscriptions, handlers,
                   sockjs, issued>>

sendMessage ==
    \E destination \in Destinations, message \in Bodies :
        /\ send(<<SendFrame(destination, message, <<>>)>>)
        /\ event' = Call("sendMessage")
        /\ fired' = <<>>
        /\ UNCHANGED <<state, heartbeatInterval, now, subscriptions, handlers,
                       sockjs, issued>>

sendMessageAndHeaders ==
    \E destination \in Destinations, message \in Bodies, headers \in ExtraHeaders :
        /\ sendWithHeaders(SendFrame(destination, message, headers))
        /\ event' = Call("sendMessageAndHeaders")
        /\ fired' = <<>>
        /\ UNCHANGED <<state, heartbeatInterval, now, subscriptions, handlers,
                       sockjs, issued>>

(***************************************************************************)
(* The heartbeat.                                                          *)
(***************************************************************************)
\* A _doHeartbeat that compares with >= where the code has >.
heartbeatDueAtInterval(t, last, interval) ==
    /\ ~(interval <= 0)
    /\ IF t >= last THEN t - last >= interval ELSE TRUE

\* _doHeartbeat's two tests.  millis() - _lastSent is an unsigned long
\* difference: when the clock has wrapped below last it is 2^32 - (last - t),
\* which exceeds every interval the model holds.
heartbeatDue(t, last, interval) ==
    /\ ~(interval <= 0)
    /\ IF t >= last THEN t - last > interval ELSE TRUE

\* loop(): _doHeartbeat, then _sendHeartbeat when due.  (The events that
\* _wsClient.loop() delivers are the transport actions above.)
loop ==
    /\ event' = Call("loop")
    /\ IF heartbeatDue(now, lastSent, heartbeatInterval)
       THEN send(<<HeartbeatPulse>>)
       ELSE send(<<>>)
    /\ fired' = <<>>
    /\ UNCHANGED <<state, heartbeatInterval, now, subscriptions, handlers,
                   sockjs, issued>>

\* millis() advances.
millis ==
    \E d \in ClockSteps :
        /\ now + d <= MaxClockSteps * d
        /\ now' = now + d
        /\ event' = Call("millis")
        /\ sent' = <<>>
        /\ fired' = <<>>
        /\ UNCHANGED <<state, heartbeatInterval, lastSent, commandCount,
                       subscriptions, handlers, sockjs, issued>>

(***************************************************************************)
(* The connection and heartbeat behaviour of the client.                   *)
(***************************************************************************)
Next ==
    \/ onConnect
    \/ onDisconnect
    \/ onReceipt
    \/ onError
    \/ WStype_DISCONNECTED
    \/ WStype_CONNECTED
    \/ sockjsHeartbeat
    \/ sockjsOpen
    \/ handleConnected
    \/ handleReceipt
    \/ handleError
    \/ handleUnsupported
    \/ disconnect
    \/ sendMessage
    \/ sendMessageAndHeaders
    \/ loop
    \/ millis

Spec == Init /\ [][Next]_vars

(***************************************************************************)
(* The subscription table.                                                 *)
(***************************************************************************)
\* A scan that runs from the last slot down.
freeSlotFromEnd(subs) ==
    IF \E i \in Slots : subs[i].id = -1
    THEN CHOOSE i \in Slots :
            /\ subs[i].id = -1
            /\ \A j \in Slots : subs[j].id = -1 => i >= j
    ELSE -1

\* subscribe's scan: the first slot whose id is -1, or -1 when there is none.
freeSlot(subs) ==
    IF \E i \in Slots : subs[i].id = -1
    THEN CHOOSE i \in Slots :
            /\ subs[i].id = -1
            /\ \A j \in Slots : subs[j].id = -1 => i <= j
    ELSE -1

\* A subscribe that stores the handler and leaves the slot's id at -1.
occupyHandlerOnly(subs, i, handler) ==
    [subs EXCEPT ![i] = [id |-> -1, messageHandler |-> handler]]

\* subscribe's two assignments to the slot it found.
occupy(subs, i, handler) ==
    [subs EXCEPT ![i] = [id |-> i, messageHandler |-> handler]]

\* An unsubscribe that clears the handler and leaves the slot's id.
releaseHandlerOnly(subs, subscription) ==
    [subs EXCEPT ![subscription].messageHandler = nullptr]

\* unsubscribe's two assignments.
release(subs, subscription) ==
    [subs EXCEPT ![subscription] = [id |-> -1, messageHandler |-> nullptr]]

\* subscribe, for an acknowledgement mode and a handler among those given.
subscribeWith(ackTypes, messageHandlers) ==
    \E queue \in Destinations, ackType \in ackTypes,
       handler \in messageHandlers :
        LET i == freeSlot(subscriptions)
        IN  /\ IF i # -1
               THEN /\ subscriptions' = occupy(subscriptions, i, handler)
                    /\ send(<<SubscribeFrame(i, queue, ackType)>>)
                    /\ issued' = [issued EXCEPT ![i] = @ + 1]
               ELSE /\ send(<<>>)
                    /\ UNCHANGED <<subscriptions, issued>>
            /\ event' = Event("subscribe", NoCommand, i, CONTINUE, FALSE)
            /\ fired' = <<>>
            /\ UNCHANGED <<state, heartbeatInterval, now, handlers, sockjs>>

subscribe == subscribeWith(Stomp_AckMode_t, MessageHandlers \cup {nullptr})

\* unsubscribe of a handle inside the table.
unsubscribe ==
    \E subscription \in Slots :
        /\ send(<<UnsubscribeFrame(subscription)>>)
        /\ subscriptions' = release(subscriptions, subscription)
        /\ issued' = [issued EXCEPT ![subscription] = 0]
        /\ event' = Event("unsubscribe", NoCommand, subscription, CONTINUE, FALSE)
        /\ fired' = <<>>
        /\ UNCHANGED <<state, heartbeatInterval, now, handlers, sockjs>>

\* The slot a MESSAGE is routed to: -1 when its subscription header does not
\* start with sub-, else the toInt of what follows.
messageSlot(message) ==
    LET sub == getValue(message.headers, "subscription")
    IN  IF ~startsWith(sub, SubPrefix) THEN -1 ELSE toInt(substring(sub, 4))

\* Whether _handleMessage reaches the handler call: the slot holds the id
\* the message names and a handler.
dispatches(subs, message) ==
    LET id == messageSlot(message)
    IN  /\ id \in Slots
        /\ startsWith(getValue(message.headers, "subscription"), SubPrefix)
        /\ subs[id].id = id
        /\ subs[id].messageHandler # nullptr

\* A switch whose ACK case lacks its break and falls into the NACK case.
acknowledgeFallsThrough(message, result) ==
    CASE result = ACK -> <<AckFrame(message), NackFrame(message)>>
      [] result = NACK -> <<NackFrame(message)>>
      [] OTHER -> <<>>

\* The frames ack / nack send for the handler's result.
acknowledge(message, result) ==
    CASE result = ACK -> <<AckFrame(message)>>
      [] result = NACK -> <<NackFrame(message)>>
      [] OTHER -> <<>>

\* _handleMessage.  The handler is application code: its result, and whether
\* it calls unsubscribe on its own handle before returning, are inputs.
handleMessageOf(messages) ==
    \E message \in messages :
        IF dispatches(subscriptions, message)
        THEN \E result \in Stomp_Ack_t, reenters \in BOOLEAN :
                LET id == messageSlot(message)
                IN  /\ event' = Event("WStype_TEXT", message, id, result, reenters)
                    /\ fired' = <<subscriptions[id].messageHandler>>
                    /\ IF reenters
                       THEN /\ subscriptions' = release(subscriptions, id)
                            /\ issued' = [issued EXCEPT ![id] = 0]
                            /\ send(<<UnsubscribeFrame(id)>>
                                    \o acknowledge(message, result))
                       ELSE /\ send(acknowledge(message, result))
                            /\ UNCHANGED <<subscriptions, issued>>
                    /\ UNCHANGED <<state, heartbeatInterval, now, handlers, sockjs>>
        ELSE /\ event' = Received(message)
             /\ fired' = <<>>
             /\ sent' = <<>>
             /\ UNCHANGED <<state, heartbeatInterval, lastSent, now, commandCount,
                            subscriptions, handlers, sockjs, issued>>

handleMessage == handleMessageOf(MessageCommands)

(***************************************************************************)
(* The subscription behaviour of the client.                               *)
(***************************************************************************)
NextSubscriptions ==
    \/ subscribe
    \/ unsubscribe
    \/ handleMessage

SpecSubscriptions == Init /\ [][NextSubscriptions]_vars

(***************************************************************************)
(* unsubscribe of a handle outside the table.                              *)
(***************************************************************************)
\* The handles just outside the table: the one before it and the one after.
OutsideHandles == {-1, STOMP_MAX_SUBSCRIPTIONS}

\* unsubscribe has no range check: the frame is sent, then the two stores to
\* _subscriptions[subscription] fall outside the array, which is undefined.
\* The table itself is not written; what the stores hit is a neighbouring
\* member: _state, declared just before the array, for -1, and
\* _connectHandler, declared just after it, for the handle past the end.
\* Either is left with some value, possibly the one it had.
unsubscribeOutside ==
    \E subscription \in OutsideHandles :
        /\ send(<<UnsubscribeFrame(subscription)>>)
        /\ event' = Event("unsubscribe", NoCommand, subscription, CONTINUE, FALSE)
        /\ fired' = <<>>
        /\ IF subscription < 0
           THEN /\ state' \in Stomp_State_t
                /\ UNCHANGED connectHandler
           ELSE /\ connectHandler' \in BOOLEAN
                /\ UNCHANGED state
        /\ UNCHANGED <<heartbeatInterval, now, subscriptions, disconnectHandler,
                       receiptHandler, errorHandler, sockjs, issued>>

\* subscribe and unsubscribe with any handle next to or inside the table.
NextRelease ==
    \/ subscribe
    \/ unsubscribe
    \/ unsubscribeOutside

SpecRelease == Init /\ [][NextRelease]_vars

(***************************************************************************)
(* One session of a client constructed without SockJS: connection, frames, *)
(* subscriptions, sends and heartbeat together, no callback registered.    *)
(***************************************************************************)
InitSession == Init /\ ~sockjs

\* The broker answers CONNECT without a heart-beat header or with 5000,0.
sessionConnected ==
    handleConnectedOf({StompCommand("CONNECTED", <<>>),
                       StompCommand("CONNECTED", << <<"heart-beat", Text(5000, 0)>> >>)})

\* The application subscribes in client mode with one handler.
sessionSubscribe == subscribeWith({CLIENT}, {"h1"})

\* The broker's MESSAGE frames name a handle of the table.
sessionMessage ==
    handleMessageOf({StompCommand("MESSAGE", << <<"subscription", SubPrefix \o StringOf(i)>>,
                                                <<"ack", MessageId>> >>) : i \in Slots})

NextSession ==
    \/ WStype_DISCONNECTED
    \/ WStype_CONNECTED
    \/ sessionConnected
    \/ handleReceipt
    \/ handleError
    \/ handleUnsupported
    \/ sessionMessage
    \/ sessionSubscribe
    \/ unsubscribe
    \/ disconnect
    \/ sendMessage
    \/ sendMessageAndHeaders
    \/ loop
    \/ millis

SpecSession == InitSession /\ [][NextSession]_vars

(***************************************************************************)
(* Properties.                                                             *)
(***************************************************************************)
ReceivedCommand(e, command) == e.op = "WStype_TEXT" /\ e.cmd.command = command

Count(names, n) == Cardinality({i \in 1..Len(names) : names[i] = n})

ConnectedEvent(e) == e.op \in {"WStype_CONNECTED", "sockjs_o"}

\* C1: disconnect() called while the state is Connected sends a DISCONNECT
\* frame and moves the state to Disconnecting; a RECEIPT frame delivered as
\* the very next event then makes the state Disconnected and invokes the
\* (registered) disconnect callback.
C1_DisconnectThenReceipt ==
    [][/\ (event'.op = "disconnect" /\ state = CONNECTED) =>
            /\ Len(sent') = 1
            /\ sent'[1].command = "DISCONNECT"
            /\ state' = DISCONNECTING
       /\ (/\ event.op = "disconnect"
           /\ event.from = CONNECTED
           /\ ReceivedCommand(event', "RECEIPT")) =>
            /\ state' = DISCONNECTED
            /\ disconnectHandler => Count(fired', "disconnect") = 1]_vars

\* C2: a transport connected event, or an 'o' pulse in SockJS mode, that
\* arrives while the state is Opening, Connected or Disconnecting changes
\* nothing and sends no CONNECT; only from Disconnected does it move the
\* state to Opening and send exactly one CONNECT frame.
C2_ConnectOnlyFromDisconnected ==
    [][ConnectedEvent(event') =>
            IF state = DISCONNECTED
            THEN /\ state' = OPENING
                 /\ Len(sent') = 1
                 /\ sent'[1].command = "CONNECT"
            ELSE /\ state' = state
                 /\ sent' = <<>>]_vars

\* C3: the connect callback, once registered, is invoked exactly once by
\* each step that moves the state into Connected and by no other step; a
\* CONNECTED frame received while the state is already Connected invokes no
\* callback and changes neither the state nor the heartbeat interval.
C3_ConnectCallbackOncePerTransition ==
    [][/\ Count(fired', "connect") =
            IF state # CONNECTED /\ state' = CONNECTED /\ connectHandler
            THEN 1 ELSE 0
       /\ (ReceivedCommand(event', "CONNECTED") /\ state = CONNECTED) =>
            /\ fired' = <<>>
            /\ state' = CONNECTED
            /\ heartbeatInterval' = heartbeatInterval]_vars

\* C3 witness: a CONNECTED frame asking for 20000 arrived while the state was
\* Connected with the connect callback registered; nothing was invoked and
\* the interval negotiated earlier (10000) stands.
C3_Witness ==
    /\ ReceivedCommand(event, "CONNECTED")
    /\ event.from = CONNECTED
    /\ getValue(event.cmd.headers, "heart-beat") = Text(20000, 0)
    /\ connectHandler
    /\ fired = <<>>
    /\ state = CONNECTED
    /\ heartbeatInterval = 10000

\* The state changes section 4.4 lists, with the event that causes each.
ListedTransition(old, new, e) ==
    \/ old = DISCONNECTED /\ new = OPENING /\ ConnectedEvent(e)
    \/ old = OPENING /\ new = CONNECTED /\ ReceivedCommand(e, "CONNECTED")
    \/ old = CONNECTED /\ new = DISCONNECTING /\ e.op = "disconnect"
    \/ /\ old \in {CONNECTED, OPENING, DISCONNECTING}
       /\ new = DISCONNECTED
       /\ \/ e.op = "WStype_DISCONNECTED"
          \/ ReceivedCommand(e, "ERROR")
          \/ ReceivedCommand(e, "RECEIPT") /\ old = DISCONNECTING

\* C4: every change of the connection state is one of the listed
\* transitions; in particular Connected is entered only from Opening.
C4_OnlyListedTransitions ==
    [][state' # state => ListedTransition(state, state', event')]_vars

\* C5: when a CONNECTED frame whose heart-beat header is <n>,<m> moves the
\* state to Connected, the heartbeat interval afterwards is the larger of n
\* and 10000: 5000,0 gives 10000, 20000,0 gives 20000, 0,0 gives 10000.
C5_IntervalIsMaxOfServerAndPreferred ==
    (ReceivedCommand(event, "CONNECTED") /\ event.from # CONNECTED) =>
        LET header == getValue(event.cmd.headers, "heart-beat")
        IN  /\ \A p \in HeartBeatPairs :
                header = Text(p[1], p[2]) =>
                    heartbeatInterval = IF p[1] > 10000 THEN p[1] ELSE 10000
            /\ header = <<"5", "0", "0", "0", ",", "0">> => heartbeatInterval = 10000
            /\ header = <<"2", "0", "0", "0", "0", ",", "0">> => heartbeatInterval = 20000
            /\ header = <<"0", ",", "0">> => heartbeatInterval = 10000

\* C5 witness: CONNECTED with heart-beat:20000,0 moved the state to Connected
\* and the interval is 20000.
C5_Witness ==
    /\ ReceivedCommand(event, "CONNECTED")
    /\ event.from # CONNECTED
    /\ getValue(event.cmd.headers, "heart-beat") = <<"2", "0", "0", "0", "0", ",", "0">>
    /\ state = CONNECTED
    /\ heartbeatInterval = 20000

\* C6: whenever a CONNECTED frame with no heart-beat header, or an empty one,
\* moves the state to Connected, the heartbeat interval afterwards is 0, also
\* on a reconnect after a session that negotiated a non-zero interval.
C6_NoHeaderDisablesHeartbeat ==
    (/\ ReceivedCommand(event, "CONNECTED")
     /\ event.from # CONNECTED
     /\ getValue(event.cmd.headers, "heart-beat") = <<>>) =>
        heartbeatInterval = 0

\* C7: every frame handed to the transport sets lastSendTime to the current
\* time, whichever operation sends it.
C7_EverySendRefreshesLastSent ==
    sent # <<>> => lastSent = now

\* C8: the heartbeat check of loop() sends nothing and changes no client
\* state when the interval is 0 or now - lastSent does not exceed it; when
\* now - lastSent exceeds a non-zero interval it sends exactly one frame, a
\* single newline, and sets lastSent to now; a loop() repeated at once at the
\* same time sends nothing.
C8_HeartbeatCheck ==
    [][event'.op = "loop" =>
            /\ IF heartbeatInterval # 0 /\ now - lastSent > heartbeatInterval
               THEN /\ sent' = <<[command |-> "\n", headers |-> <<>>, body |-> <<>>]>>
                    /\ lastSent' = now
               ELSE /\ sent' = <<>>
                    /\ UNCHANGED <<state, heartbeatInterval, lastSent, now,
                                   commandCount, subscriptions, handlers>>
            /\ event.op = "loop" => sent' = <<>>]_vars

\* C8 witness: a loop() found more than the interval elapsed since the last
\* send and sent the pulse.
C8_Witness ==
    /\ event.op = "loop"
    /\ sent = <<[command |-> "\n", headers |-> <<>>, body |-> <<>>]>>
    /\ heartbeatInterval = 20000
    /\ lastSent = now
    /\ now = 30000

FreeSlots(subs) == {i \in Slots : subs[i].id = -1}

\* C9: subscribe returns the lowest-numbered free handle, marks that slot
\* live, leaves the others alone and sends one SUBSCRIBE frame whose id is
\* sub-<handle>; with every slot live it returns -1, leaves the table
\* unchanged and sends nothing.  So a subscribe that follows unsubscribe(h)
\* returns the lowest free handle, which is at most h.
C9_SubscribeLowestFree ==
    [][event'.op = "subscribe" =>
            LET free == FreeSlots(subscriptions)
                h == event'.ret
            IN  IF free = {}
                THEN /\ h = -1
                     /\ subscriptions' = subscriptions
                     /\ sent' = <<>>
                ELSE /\ h \in free
                     /\ \A j \in free : h <= j
                     /\ subscriptions'[h].id = h
                     /\ \A j \in Slots \ {h} : subscriptions'[j] = subscriptions[j]
                     /\ Len(sent') = 1
                     /\ sent'[1].command = "SUBSCRIBE"
                     /\ getValue(sent'[1].headers, "id")
                            = <<"s", "u", "b", "-">> \o StringOf(h)
                     /\ event.op = "unsubscribe" => h <= event.ret]_vars

\* C9 witness: subscribe returned 1 while slots 0 and 2 are live, so handle 1
\* had been given out before slot 2, was unsubscribed, and is reused.
C9_Witness ==
    /\ event.op = "subscribe"
    /\ event.ret = 1
    /\ subscriptions[0].id = 0
    /\ subscriptions[1].id = 1
    /\ subscriptions[2].id = 2
    /\ Len(sent) = 1
    /\ getValue(sent[1].headers, "id") = <<"s", "u", "b", "-", "1">>

\* C10: the handles subscribe has returned and that have not been
\* unsubscribed since are pairwise distinct (no handle is outstanding
\* twice), lie in 0..capacity-1 and denote live slots; subscribe returns a
\* handle of the table or -1, and at most capacity subscriptions are live.
C10_OutstandingHandlesDistinct ==
    /\ \A h \in Slots : issued[h] <= 1 /\ (issued[h] = 1 => subscriptions[h].id = h)
    /\ event.op = "subscribe" => event.ret \in Slots \cup {-1}
    /\ Cardinality({h \in Slots : issued[h] > 0}) <= STOMP_MAX_SUBSCRIPTIONS
    /\ Cardinality(Slots \ FreeSlots(subscriptions)) <= STOMP_MAX_SUBSCRIPTIONS

\* C10 witness: subscribe returned 0 while handle 1 is outstanding: 0 was
\* given out, unsubscribed and given out again, and is outstanding once.
C10_Witness ==
    /\ event.op = "subscribe"
    /\ event.ret = 0
    /\ issued[0] = 1
    /\ issued[1] = 1
    /\ subscriptions[0].id = 0
    /\ subscriptions[1].id = 1

FreeSlot == [id |-> -1, messageHandler |-> nullptr]

\* C11: unsubscribe of a live handle marks exactly that slot free and leaves
\* the others alone; unsubscribe of a free handle, or of a handle outside
\* 0..capacity-1, changes no slot and no other client state (and sends
\* nothing).
C11_UnsubscribeIdempotent ==
    [][event'.op = "unsubscribe" =>
            LET h == event'.ret
            IN  IF h \in Slots /\ subscriptions[h].id = h
                THEN subscriptions' = [subscriptions EXCEPT ![h] = FreeSlot]
                ELSE /\ sent' = <<>>
                     /\ UNCHANGED <<state, heartbeatInterval, lastSent,
                                    commandCount, subscriptions, handlers>>]_vars

\* The subscription header of message is sub-<h> for a live slot h.
NamesLiveSlot(subs, message) ==
    \E h \in Slots :
        /\ getValue(message.headers, "subscription")
                = <<"s", "u", "b", "-">> \o StringOf(h)
        /\ subs[h].id = h

\* C12: a MESSAGE whose subscription header is missing, is not sub-<index>
\* with a numeric index (sub-, sub-abc), or names a slot that is not live is
\* dropped: no handler is invoked, nothing is sent, state and table stay.
C12_MalformedMessageDropped ==
    [][(ReceivedCommand(event', "MESSAGE")
            /\ ~NamesLiveSlot(subscriptions, event'.cmd)) =>
            /\ fired' = <<>>
            /\ sent' = <<>>
            /\ UNCHANGED <<state, subscriptions>>]_vars

\* The frames a dispatch sends after the handler returned result: one ACK or
\* one NACK whose id is the message's ack header, or none.
Acknowledgement(message, result) ==
    IF result = CONTINUE THEN <<>>
    ELSE <<[command |-> result,
            headers |-> << <<"id", getValue(message.headers, "ack")>> >>,
            body |-> <<>>]>>

\* The frame the handler's own unsubscribe(h) sends, when it makes that call.
OwnUnsubscribe(e) ==
    IF e.reenters
    THEN <<[command |-> "UNSUBSCRIBE",
            headers |-> << <<"id", <<"s", "u", "b", "-">> \o StringOf(e.ret)>> >>,
            body |-> <<>>]>>
    ELSE <<>>

\* C13: in every connection state, a MESSAGE whose subscription header is
\* sub-<h> for a live handle h with a handler invokes that handler exactly
\* once; the dispatch then sends exactly one ACK with the message's ack
\* header as id if the handler returned Ack, exactly one NACK if Nack, and
\* nothing if Continue (after whatever the handler itself sent); the
\* connection state does not change.
C13_DispatchAcknowledges ==
    [][\A h \in Slots :
            (/\ ReceivedCommand(event', "MESSAGE")
             /\ getValue(event'.cmd.headers, "subscription")
                    = <<"s", "u", "b", "-">> \o StringOf(h)
             /\ subscriptions[h].id = h
             /\ subscriptions[h].messageHandler # nullptr) =>
                /\ fired' = <<subscriptions[h].messageHandler>>
                /\ event'.ret = h
                /\ sent' = OwnUnsubscribe(event')
                            \o Acknowledgement(event'.cmd, event'.result)
                /\ state' = state]_vars

\* C13 witness: a MESSAGE for live handle 0 arrived while the state was
\* Opening, the handler returned Nack and one NACK with id msg-1 was sent.
C13_Witness ==
    /\ ReceivedCommand(event, "MESSAGE")
    /\ event.from = OPENING
    /\ state = OPENING
    /\ event.ret = 0
    /\ event.result = NACK
    /\ ~event.reenters
    /\ fired = <<"h1">>
    /\ Len(sent) = 1
    /\ sent[1].command = "NACK"
    /\ getValue(sent[1].headers, "id") = <<"m", "s", "g", "-", "1">>

\* first for a registered error callback, then second for a registered
\* disconnect callback.
Registered(first, second) ==
    (IF errorHandler THEN first ELSE <<>>)
    \o (IF disconnectHandler THEN second ELSE <<>>)

\* C14: an ERROR frame received in any state sets the state to Disconnected
\* and invokes the error callback and then the disconnect callback, each
\* once (when registered); it sends no frame.
C14_ErrorIsFatal ==
    [][ReceivedCommand(event', "ERROR") =>
            /\ state' = DISCONNECTED
            /\ fired' = Registered(<<"error">>, <<"disconnect">>)
            /\ sent' = <<>>
            /\ UNCHANGED <<commandCount, lastSent>>]_vars

\* C14 witness: an ERROR frame arrived in state Connected with both
\* callbacks registered.
C14_Witness ==
    /\ ReceivedCommand(event, "ERROR")
    /\ event.from = CONNECTED
    /\ state = DISCONNECTED
    /\ fired = <<"error", "disconnect">>
    /\ sent = <<>>

\* C15: a RECEIPT frame received while the state is not Disconnecting
\* invokes the receipt callback once (when registered) and nothing else:
\* the state is unchanged, the disconnect callback is not invoked, no frame
\* is sent.
C15_ReceiptOnlyNotifies ==
    [][(ReceivedCommand(event', "RECEIPT") /\ state # DISCONNECTING) =>
            /\ fired' = IF receiptHandler THEN <<"receipt">> ELSE <<>>
            /\ state' = state
            /\ sent' = <<>>
            /\ UNCHANGED <<commandCount, lastSent, heartbeatInterval,
                           subscriptions>>]_vars

\* C15 witness: a RECEIPT arrived in state Connected with the receipt and
\* disconnect callbacks registered; only the receipt callback was invoked.
C15_Witness ==
    /\ ReceivedCommand(event, "RECEIPT")
    /\ event.from = CONNECTED
    /\ state = CONNECTED
    /\ receiptHandler
    /\ disconnectHandler
    /\ fired = <<"receipt">>

ReceiptOf(frames) == toInt(getValue(frames[1].headers, "receipt"))

\* C16: the command counter goes up by exactly one for every frame handed to
\* the transport and is changed by nothing else, so it never decreases; the
\* receipt of a DISCONNECT is the counter before the call, and of two
\* disconnect() calls in a row the second carries the larger receipt.
C16_CommandCounter ==
    [][/\ commandCount' = commandCount + Len(sent')
       /\ commandCount' >= commandCount
       /\ event'.op = "disconnect" =>
            /\ Len(sent') = 1
            /\ sent'[1].command = "DISCONNECT"
            /\ ReceiptOf(sent') = commandCount
            /\ event.op = "disconnect" => ReceiptOf(sent') > ReceiptOf(sent)]_vars

\* C16 witness: the fifth frame of a run is a DISCONNECT whose receipt is 4,
\* sent right after a DISCONNECT whose receipt was 3.
C16_Witness ==
    /\ event.op = "disconnect"
    /\ commandCount = 5
    /\ Len(sent) = 1
    /\ getValue(sent[1].headers, "receipt") = <<"4">>

\* The step recorded in e is an unsubscribe of handle h: by the application
\* or by the handler of the message being dispatched.
Unsubscribes(e, h) ==
    \/ e.op = "unsubscribe" /\ e.ret = h
    \/ ReceivedCommand(e, "MESSAGE") /\ e.reenters /\ e.ret = h

\* The events that are not subscribe, unsubscribe or a MESSAGE.
LeavesTableAlone(e) ==
    \/ e.op \in {"WStype_DISCONNECTED", "WStype_CONNECTED", "loop", "millis",
                 "disconnect", "sendMessage", "sendMessageAndHeaders"}
    \/ e.op = "WStype_TEXT" /\ e.cmd.command # "MESSAGE"

\* C17: a live subscription keeps its slot and handler across every step
\* that is not an unsubscribe of its handle; transport events, CONNECTED,
\* RECEIPT, ERROR and unsupported frames, loop, disconnect and the sends
\* leave the whole table unchanged; a MESSAGE for a live handle reaches its
\* handler whatever happened before.
C17_SubscriptionsPersist ==
    [][/\ \A h \in Slots :
            (subscriptions[h].id = h /\ ~Unsubscribes(event', h)) =>
                subscriptions'[h] = subscriptions[h]
       /\ LeavesTableAlone(event') => subscriptions' = subscriptions
       /\ \A h \in Slots :
            (/\ ReceivedCommand(event', "MESSAGE")
             /\ getValue(event'.cmd.headers, "subscription") = SubPrefix \o StringOf(h)
             /\ subscriptions[h].id = h
             /\ subscriptions[h].messageHandler # nullptr) =>
                fired' = <<subscriptions[h].messageHandler>>]_vars

\* C17 witness: the transport dropped a Connected session while handle 0 was
\* live; the slot still holds handle 0 and its handler.
C17_Witness ==
    /\ event.op = "WStype_DISCONNECTED"
    /\ event.from = CONNECTED
    /\ state = DISCONNECTED
    /\ subscriptions[0] = [id |-> 0, messageHandler |-> "h1"]

\* C18: when the handler of live subscription h calls unsubscribe(h) during
\* the dispatch of a MESSAGE, the handler is invoked once, the frames go out
\* as UNSUBSCRIBE and then the one ACK or NACK its result asks for, slot h
\* is free afterwards and the other slots are untouched; a MESSAGE for
\* sub-<h> while slot h is free invokes no handler and sends nothing.
C18_ReentrantUnsubscribe ==
    [][ReceivedCommand(event', "MESSAGE") =>
            /\ event'.reenters =>
                LET h == event'.ret
                IN  /\ h \in Slots
                    /\ fired' = <<subscriptions[h].messageHandler>>
                    /\ sent' = OwnUnsubscribe(event')
                                \o Acknowledgement(event'.cmd, event'.result)
                    /\ subscriptions' = [subscriptions EXCEPT ![h] = FreeSlot]
            /\ \A h \in Slots :
                (/\ getValue(event'.cmd.headers, "subscription")
                        = SubPrefix \o StringOf(h)
                 /\ subscriptions[h].id = -1) =>
                    /\ fired' = <<>>
                    /\ sent' = <<>>
                    /\ subscriptions' = subscriptions]_vars

\* C18 witness: the handler of handle 1 unsubscribed itself and returned
\* Ack; UNSUBSCRIBE sub-1 and then ACK msg-1 were sent and slot 1 is free.
C18_Witness ==
    /\ ReceivedCommand(event, "MESSAGE")
    /\ event.reenters
    /\ event.ret = 1
    /\ event.result = ACK
    /\ Len(sent) = 2
    /\ sent[1].command = "UNSUBSCRIBE"
    /\ getValue(sent[1].headers, "id") = <<"s", "u", "b", "-", "1">>
    /\ sent[2].command = "ACK"
    /\ subscriptions[1].id = -1
    /\ Len(fired) = 1

\* C19: loop() emits a heartbeat pulse only while the state is Connected.
C19_HeartbeatOnlyWhileConnected ==
    [][(event'.op = "loop" /\ sent' # <<>>) => state = CONNECTED]_vars

\* C20: a transport disconnected event sets the state to Disconnected and
\* does nothing else: no callback is invoked, nothing is sent, and the
\* table, the heartbeat interval, lastSent and the command counter stay.
C20_TransportDisconnectOnlySetsState ==
    [][event'.op = "WStype_DISCONNECTED" =>
            /\ state' = DISCONNECTED
            /\ fired' = <<>>
            /\ sent' = <<>>
            /\ UNCHANGED <<subscriptions, heartbeatInterval, lastSent,
                           commandCount, handlers>>]_vars

\* C20 witness: the transport dropped a Connected session that had
\* negotiated 10000 ms, with all four callbacks registered; none was invoked.
C20_Witness ==
    /\ event.op = "WStype_DISCONNECTED"
    /\ event.from = CONNECTED
    /\ state = DISCONNECTED
    /\ connectHandler /\ disconnectHandler /\ receiptHandler /\ errorHandler
    /\ heartbeatInterval = 10000
    /\ commandCount = 1
    /\ fired = <<>>
    /\ sent = <<>>

====
